---- MODULE Spec2Model ----
(***************************************************************************)
(* A model of fiatjaf/graphql's request pipeline (graphql.go: Do, DoAsync, *)
(* do) and of the websocket transport (handler/websocket.go:               *)
(* ContextWebsocketHandler).                                               *)
(*                                                                         *)
(* Two state machines share the module.  Spec / FairSpec run one call of   *)
(* do and the goroutine that feeds the channel it returns.  WsSpec /       *)
(* WsFairSpec run one websocket connection: the reader, the writer, the    *)
(* per-frame goroutines, the subscriptionCancellers map and the write      *)
(* mutex.                                                                  *)
(***************************************************************************)
EXTENDS Integers, Sequences, FiniteSets, TLC

\* Largest number of top-level definitions of a parsed document.
MaxDefs == 2
\* Largest number of events a subscription source emits.
MaxEvents == 2

(***************************************************************************)
(* State of one call of do and of the channel it returns.                  *)
(***************************************************************************)

VARIABLES
    skipSubscriptions,  \* do's second parameter: TRUE from Do, FALSE from DoAsync
    OperationName,      \* Params.OperationName: 0 is "", i names the i-th definition
    ctxDone,            \* Params.Context has been canceled
    pc,                 \* the line do is at
    AST,                \* the parsed document: the kinds of AST.Definitions
    extErrs,            \* do's local extErrs
    calls,              \* hooks and stages invoked so far, each with whether it reported errors
    strategy,           \* which producer feeds the returned channel
    producer,           \* the producer goroutine: "none", "send", "stream", "done"
    pending,            \* the Result the producer is blocked sending
    events,             \* events the subscription producer has delivered
    chClosed,           \* the returned channel has been closed
    caller,             \* the caller of Do / DoAsync: "in_do", "recv", "range", "done", "panicked"
    received            \* the Results the caller has taken from the channel

doVars == <<skipSubscriptions, OperationName, ctxDone, pc, AST, extErrs, calls,
            strategy, producer, pending, events, chClosed, caller, received>>

\* Largest number of inbound frames the reader dispatches on one connection.
MaxFrames == 2
\* Number of distinct client-supplied frame ids.
MaxIds == 2
\* Largest number of inbound frames when the writer and the peer's failures
\* are in play too.
MaxConnFrames == 1
\* The seconds of an idle connection that are followed.
MaxTime == 130

(***************************************************************************)
(* State of the websocket connection (PART 2 gives its actions).           *)
(***************************************************************************)

VARIABLES
    readerPc,               \* the reader goroutine: "read", "pong", "term", "done"
    writerPc,               \* the writer goroutine: "select", "ping", "term", "done"
    connClosed,             \* conn.Close() has been called
    tickerStopped,          \* ticker.Stop() has been called
    tickPending,            \* when the ticker was stopped, a tick was waiting in ticker.C
    writeBroken,            \* the peer is gone: writes to the socket fail
    mutex,                  \* ws.mutex: 0 free, else the goroutine holding it
    subscriptionCancellers, \* ws.subscriptionCancellers: id -> session whose cancel is stored, 0 absent
    canceled,               \* sessions whose cancel func has been called
    tasks,                  \* the messages read, in order, each with the goroutine that handles it
    term,                   \* each runner of terminateConnection: where its Range is
    teardowns,              \* how many times terminateConnection's body has begun
    stopped                 \* <<session, goroutine>>: the goroutine of a stop frame canceled the session

wsVars == <<readerPc, writerPc, connClosed, tickerStopped, tickPending, writeBroken, mutex,
            subscriptionCancellers, canceled, tasks, term, teardowns, stopped>>

(***************************************************************************)
(* The connection's clock and read deadline (PART 2 gives their actions).  *)
(***************************************************************************)

VARIABLES
    now,                    \* the time since the upgrade, in seconds
    readDeadline,           \* the deadline conn.SetReadDeadline has set
    lastPong,               \* when the last pong arrived; 0, the upgrade, before the first
    nextPing,               \* when ticker.C delivers its next tick
    pinged                  \* a keepalive ping has gone out that no pong has answered

keepaliveVars == <<now, readDeadline, lastPong, nextPing, pinged>>

vars == <<doVars, wsVars, keepaliveVars>>

(***************************************************************************)
(* PART 1: the pipeline, graphql.go                                        *)
(***************************************************************************)

\* ast: the kinds of top-level definition the dispatch can meet.
OperationKinds == {"query", "mutation", "subscription"}
DefinitionKinds == OperationKinds \cup {"fragment"}

\* parser.Parse's successful outcomes: documents of 0..MaxDefs definitions.
Documents == UNION {[1..n -> DefinitionKinds] : n \in 0..MaxDefs}

NoResult == [Errors |-> <<>>, Data |-> "none"]

\* The operation Params.OperationName selects: with no name, the document's
\* only operation; "none" when there is no such operation.
SelectedOperation(doc, name) ==
    LET ops == {i \in 1..Len(doc) : doc[i] \in OperationKinds}
    IN  IF name = 0
        THEN IF Cardinality(ops) = 1 THEN doc[CHOOSE i \in ops : TRUE] ELSE "none"
        ELSE IF name \in ops THEN doc[name] ELSE "none"

\* Execute(params): one Result, an execution error when no operation is selected.
Execute(doc, name) ==
    IF SelectedOperation(doc, name) = "none"
    THEN [Errors |-> <<"execute">>, Data |-> "none"]
    ELSE [Errors |-> <<>>, Data |-> SelectedOperation(doc, name)]

\* The caller's position once do has returned its channel: Do receives once
\* (return <-ch), a DoAsync consumer ranges over the channel.
AfterReturn == IF skipSubscriptions THEN "recv" ELSE "range"

Called(name, errs) == Append(calls, [name |-> name, errs |-> errs])

\* The errors a hook reports: its own tag, or nothing.
HookErrs(name, errs) == IF errs THEN <<name>> ELSE <<>>

\* wrapErr with the send left out of its goroutine.
wrapErrUnsent(gqlerr) ==
    /\ extErrs' = gqlerr
    /\ strategy' = "wrapErr"
    /\ producer' = "done"
    /\ pending' = [Errors |-> gqlerr, Data |-> "none"]
    /\ pc' = "returned"
    /\ caller' = AfterReturn
    /\ UNCHANGED <<chClosed, events>>

\* wrapErr: make(chan *Result); go func() { ch <- &Result{Errors: gqlerr} }(); no close.
wrapErr(gqlerr) ==
    /\ extErrs' = gqlerr
    /\ strategy' = "wrapErr"
    /\ producer' = "send"
    /\ pending' = [Errors |-> gqlerr, Data |-> "none"]
    /\ pc' = "returned"
    /\ caller' = AfterReturn
    /\ UNCHANGED <<chClosed, events>>

\* A stage succeeded: do goes on to the next line.
Continue(next) ==
    /\ pc' = next
    /\ extErrs' = <<>>
    /\ UNCHANGED <<strategy, producer, pending, caller, chClosed, events>>

\* What no line of do touches.
DoFrame == UNCHANGED <<skipSubscriptions, OperationName, ctxDone, received, wsVars, keepaliveVars>>

DoInit ==
    /\ skipSubscriptions \in BOOLEAN
    /\ OperationName \in 0..MaxDefs
    /\ ctxDone = FALSE
    /\ pc = "handleExtensionsInits"
    /\ AST = <<>>
    /\ extErrs = <<>>
    /\ calls = <<>>
    /\ strategy = "none"
    /\ producer = "none"
    /\ pending = NoResult
    /\ events = 0
    /\ chClosed = FALSE
    /\ caller = "in_do"
    /\ received = <<>>

\* extErrs := handleExtensionsInits(&p); errors end the request.
HandleExtensionsInits ==
    /\ pc = "handleExtensionsInits"
    /\ \E errs \in BOOLEAN :
        /\ calls' = Called("init", errs)
        /\ IF errs THEN wrapErr(HookErrs("init", errs))
                   ELSE Continue("handleExtensionsParseDidStart")
    /\ UNCHANGED AST
    /\ DoFrame

\* extErrs, parseFinishFn := handleExtensionsParseDidStart(&p); errors end the
\* request there, before parseFinishFn is called.
HandleExtensionsParseDidStart ==
    /\ pc = "handleExtensionsParseDidStart"
    /\ \E errs \in BOOLEAN :
        /\ calls' = Called("parseDidStart", errs)
        /\ IF errs THEN wrapErr(HookErrs("parseDidStart", errs))
                   ELSE Continue("Parse")
    /\ UNCHANGED AST
    /\ DoFrame

\* AST, err := parser.Parse(...). On an error parseFinishFn(err) runs and its
\* errors are merged before the parser's.
Parse ==
    /\ pc = "Parse"
    /\ \/ \E finishErrs \in BOOLEAN :
            /\ calls' = calls \o << [name |-> "parse", errs |-> TRUE],
                                    [name |-> "parseFinish", errs |-> finishErrs] >>
            /\ wrapErr(HookErrs("parseFinish", finishErrs) \o <<"parse">>)
            /\ UNCHANGED AST
       \/ \E doc \in Documents :
            /\ AST' = doc
            /\ calls' = Called("parse", FALSE)
            /\ Continue("parseFinishFn")
    /\ DoFrame

\* ParseFinish with the check of its errors left out.
ParseFinishUnchecked ==
    /\ pc = "parseFinishFn"
    /\ \E errs \in BOOLEAN :
        /\ calls' = Called("parseFinish", errs)
        /\ Continue("handleExtensionsValidationDidStart")
    /\ UNCHANGED AST
    /\ DoFrame

\* extErrs = parseFinishFn(err) after a successful parse.
ParseFinish ==
    /\ pc = "parseFinishFn"
    /\ \E errs \in BOOLEAN :
        /\ calls' = Called("parseFinish", errs)
        /\ IF errs THEN wrapErr(HookErrs("parseFinish", errs))
                   ELSE Continue("handleExtensionsValidationDidStart")
    /\ UNCHANGED AST
    /\ DoFrame

\* extErrs, validationFinishFn := handleExtensionsValidationDidStart(&p); errors
\* end the request there, before validationFinishFn is called.
HandleExtensionsValidationDidStart ==
    /\ pc = "handleExtensionsValidationDidStart"
    /\ \E errs \in BOOLEAN :
        /\ calls' = Called("validationDidStart", errs)
        /\ IF errs THEN wrapErr(HookErrs("validationDidStart", errs))
                   ELSE Continue("ValidateDocument")
    /\ UNCHANGED AST
    /\ DoFrame

\* validationResult := ValidateDocument(...). An invalid document runs
\* validationFinishFn and merges its errors before the validator's.
ValidateDocument ==
    /\ pc = "ValidateDocument"
    /\ \/ \E finishErrs \in BOOLEAN :
            /\ calls' = calls \o << [name |-> "validate", errs |-> TRUE],
                                    [name |-> "validationFinish", errs |-> finishErrs] >>
            /\ wrapErr(HookErrs("validationFinish", finishErrs) \o <<"validate">>)
       \/ /\ calls' = Called("validate", FALSE)
          /\ Continue("validationFinishFn")
    /\ UNCHANGED AST
    /\ DoFrame

\* extErrs = validationFinishFn(validationResult.Errors) for a valid document.
ValidationFinish ==
    /\ pc = "validationFinishFn"
    /\ \E errs \in BOOLEAN :
        /\ calls' = Called("validationFinish", errs)
        /\ IF errs THEN wrapErr(HookErrs("validationFinish", errs))
                   ELSE Continue("dispatch")
    /\ UNCHANGED AST
    /\ DoFrame

\* The condition of the if that picks the strategy: only Definitions[0] is looked at.
EntersSubscription(skip, doc) ==
    /\ ~skip
    /\ Len(doc) > 0
    /\ doc[1] = "subscription"

\* AST.Definitions[0].(*ast.OperationDefinition) is evaluated, and panics on a
\* definition that is no operation.
AssertionPanics(skip, doc) ==
    /\ ~skip
    /\ Len(doc) > 0
    /\ doc[1] \notin OperationKinds

\* if !skipSubscriptions && len(AST.Definitions) > 0 && ... == "subscription"
\*     return ExecuteSubscription(params)
\* else a fresh channel fed by go func() { ch <- Execute(params) }(), never closed.
Dispatch ==
    /\ pc = "dispatch"
    /\ IF AssertionPanics(skipSubscriptions, AST)
       THEN /\ pc' = "panicked"
            /\ caller' = "panicked"
            /\ UNCHANGED <<strategy, producer, pending, calls>>
       ELSE IF EntersSubscription(skipSubscriptions, AST)
       THEN /\ pc' = "returned"
            /\ strategy' = "ExecuteSubscription"
            /\ producer' = "stream"
            /\ calls' = Called("executeSubscription", FALSE)
            /\ caller' = AfterReturn
            /\ UNCHANGED pending
       ELSE /\ pc' = "returned"
            /\ strategy' = "Execute"
            /\ producer' = "send"
            /\ pending' = Execute(AST, OperationName)
            /\ calls' = Called("execute", pending'.Errors # <<>>)
            /\ caller' = AfterReturn
    /\ UNCHANGED <<AST, extErrs, chClosed, events>>
    /\ DoFrame

\* The producer goroutine's send on the unbuffered channel meets the caller's
\* receive: singleEventChannel <- result with <-ch or one turn of range ch.
\* The goroutine then ends; nothing closes the channel.
Send ==
    /\ producer = "send"
    /\ caller \in {"recv", "range"}
    /\ received' = Append(received, pending)
    /\ producer' = "done"
    /\ caller' = IF caller = "recv" THEN "done" ELSE "range"
    /\ UNCHANGED <<skipSubscriptions, OperationName, ctxDone, pc, AST, extErrs, calls,
                   strategy, pending, events, chClosed, wsVars, keepaliveVars>>

\* ExecuteSubscription's goroutine delivers the next event while the context lives.
SubscriptionEvent ==
    /\ producer = "stream"
    /\ ~ctxDone
    /\ events < MaxEvents
    /\ caller = "range"
    /\ events' = events + 1
    /\ received' = Append(received, [Errors |-> <<>>, Data |-> "event"])
    /\ UNCHANGED <<skipSubscriptions, OperationName, ctxDone, pc, AST, extErrs, calls,
                   strategy, producer, pending, chClosed, caller, wsVars, keepaliveVars>>

\* ExecuteSubscription's goroutine ends, on cancellation or when its source is
\* exhausted, and closes the channel.
SubscriptionClose ==
    /\ producer = "stream"
    /\ ctxDone \/ events = MaxEvents
    /\ producer' = "done"
    /\ chClosed' = TRUE
    /\ UNCHANGED <<skipSubscriptions, OperationName, ctxDone, pc, AST, extErrs, calls,
                   strategy, pending, events, caller, received, wsVars, keepaliveVars>>

\* for result := range ch ends when the channel is closed.
RangeEnd ==
    /\ caller = "range"
    /\ chClosed
    /\ caller' = "done"
    /\ UNCHANGED <<skipSubscriptions, OperationName, ctxDone, pc, AST, extErrs, calls,
                   strategy, producer, pending, events, chClosed, received, wsVars, keepaliveVars>>

\* The owner of Params.Context cancels it.
CancelContext ==
    /\ pc = "returned"
    /\ ~ctxDone
    /\ ctxDone' = TRUE
    /\ UNCHANGED <<skipSubscriptions, OperationName, pc, AST, extErrs, calls, strategy,
                   producer, pending, events, chClosed, caller, received, wsVars, keepaliveVars>>

(***************************************************************************)
(* PART 2: the websocket transport, handler/websocket.go                   *)
(***************************************************************************)

\* The goroutines other than the per-frame ones, as holders of ws.mutex and
\* runners of terminateConnection.
Reader == -1
Writer == -2
Runners == {Reader, Writer}

Ids == 1..MaxIds

\* Request strings, as the tokens the handler's textual test and the parser see:
\* "sp" a space, "nl" a line break, "subscriptionX" a name that only starts with
\* the word subscription.
Queries == { <<"sp", "subscription">>, <<"nl", "subscription">>, <<"query">>,
             <<"subscriptionX">> }

\* strings.TrimLeft(s, " "): leading spaces only.
RECURSIVE TrimLeft(_)
TrimLeft(q) == IF q # <<>> /\ Head(q) = "sp" THEN TrimLeft(Tail(q)) ELSE q

\* strings.HasPrefix(strings.TrimLeft(payload.Query, " "), "subscription")
HasPrefixSubscription(q) ==
    LET t == TrimLeft(q)
    IN  t # <<>> /\ Head(t) \in {"subscription", "subscriptionX"}

\* The lexer skips spaces and line breaks alike.
RECURSIVE SkipWhitespace(_)
SkipWhitespace(q) ==
    IF q # <<>> /\ Head(q) \in {"sp", "nl"} THEN SkipWhitespace(Tail(q)) ELSE q

\* parser.Parse on a request string: the document, or <<"error">>.
ParseQuery(q) ==
    LET t == SkipWhitespace(q)
    IN  IF t # <<>> /\ Head(t) \in OperationKinds THEN <<Head(t)>> ELSE <<"error">>

\* What graphql.DoAsync(params) returns for a request string: "stream" is
\* ExecuteSubscription's channel, "single" a channel that carries one Result
\* and is never closed.
DoAsyncChannel(q) ==
    IF ParseQuery(q) # <<"error">> /\ EntersSubscription(FALSE, ParseQuery(q))
    THEN "stream" ELSE "single"

\* The inbound messages a client can send: a websocket ping, or a frame.  A
\* frame is malformed JSON, or has a type, an id and a payload.
Frames ==
    { [type |-> ty, id |-> 0, query |-> <<>>, payloadOk |-> TRUE] :
        ty \in {"ping", "malformed", "connection_init", "unknown"} }
    \cup { [type |-> "stop", id |-> i, query |-> <<>>, payloadOk |-> TRUE] : i \in Ids }
    \cup { [type |-> ty, id |-> i, query |-> q, payloadOk |-> TRUE] :
             ty \in {"subscribe", "start"}, i \in Ids, q \in Queries }
    \cup { [type |-> ty, id |-> i, query |-> <<>>, payloadOk |-> FALSE] :
             ty \in {"subscribe", "start"}, i \in Ids }

\* dataMessageName with one spelling for both requests.
dataMessageNameFixed(ty) == "data"

\* dataMessageName: "next" answers "subscribe", "data" answers "start".
dataMessageName(ty) == IF ty = "subscribe" THEN "next" ELSE "data"

NoFrame == [type |-> "none", id |-> 0, payload |-> 0]

ErrorFrame == [type |-> "error", id |-> 0, payload |-> 0]
AckFrame == [type |-> "connection_ack", id |-> 0, payload |-> 0]

\* The goroutine's locals once it has a frame to write and a place to go on at.
WantWrite(task, f, after) == [task EXCEPT !.pc = "lock", !.frame = f, !.after = after]

\* A connection_ack has gone out to the client.
Acked ==
    \E u \in DOMAIN tasks :
        tasks[u].type = "connection_init" /\ Len(tasks[u].written) = 1

\* The variable ctx of ContextWebsocketHandler, which all the goroutines of the
\* connection share: the request's context until the goroutine of a
\* connection_init frame has assigned it the one ModifyContextOnHeaders returns.
ctx ==
    IF \E u \in DOMAIN tasks :
            tasks[u].type = "connection_init" /\ tasks[u].pc = "done"
    THEN "modified" ELSE "request"

\* NewTask with the answer to malformed JSON left out.
NewTaskMalformedUnanswered(f) ==
    LET task == [type |-> f.type, id |-> f.id, query |-> f.query,
                 payloadOk |-> f.payloadOk, pc |-> "done", frame |-> NoFrame,
                 after |-> "done", recvd |-> 0, loaded |-> 0, written |-> <<>>,
                 ctx |-> "none", afterAck |-> Acked]
    IN  IF f.type = "connection_init" THEN WantWrite(task, AckFrame, "headers")
        ELSE IF f.type \in {"subscribe", "start"}
        THEN IF f.payloadOk THEN [task EXCEPT !.pc = "store"]
                            ELSE WantWrite(task, ErrorFrame, "done")
        ELSE IF f.type = "stop" THEN [task EXCEPT !.pc = "load"]
        ELSE task

\* A per-frame goroutine, go func(message []byte) {...}(message), run up to its
\* first step on shared state: json.Unmarshal(message, &msg), the switch on
\* msg.Type and, for "subscribe" and "start", json.Unmarshal(msg.Payload, &payload).
\* A type the switch has no case for ends the goroutine.  (A ping is answered
\* by the reader; no goroutine starts.)
NewTask(f) ==
    LET task == [type |-> f.type, id |-> f.id, query |-> f.query,
                 payloadOk |-> f.payloadOk, pc |-> "done", frame |-> NoFrame,
                 after |-> "done", recvd |-> 0, loaded |-> 0, written |-> <<>>,
                 ctx |-> "none", afterAck |-> Acked]
    IN  IF f.type = "malformed" THEN WantWrite(task, ErrorFrame, "done")
        ELSE IF f.type = "connection_init" THEN WantWrite(task, AckFrame, "headers")
        ELSE IF f.type \in {"subscribe", "start"}
        THEN IF f.payloadOk THEN [task EXCEPT !.pc = "store"]
                            ELSE WantWrite(task, ErrorFrame, "done")
        ELSE IF f.type = "stop" THEN [task EXCEPT !.pc = "load"]
        ELSE task

\* Ids are opaque to the handler: the client's ids are numbered in the order
\* in which it first uses them.
UsedIds == {tasks[t].id : t \in 1..Len(tasks)} \ {0}

Tasks == 1..Len(tasks)

IdleTerm == [pc |-> "idle", snap |-> {}, visited |-> {}, cur |-> 0, cancel |-> 0]

Registered == {i \in Ids : subscriptionCancellers[i] # 0}

WsInit ==
    /\ readerPc = "read"
    /\ writerPc = "select"
    /\ connClosed = FALSE
    /\ tickerStopped = FALSE
    /\ tickPending = FALSE
    /\ writeBroken = FALSE
    /\ mutex = 0
    /\ subscriptionCancellers = [i \in Ids |-> 0]
    /\ canceled = {}
    /\ tasks = <<>>
    /\ term = [r \in Runners |-> IdleTerm]
    /\ teardowns = 0
    /\ stopped = {}

\* ---- writes to the socket: WebSocket.WriteJSON / WebSocket.WriteMessage ----

\* A write succeeds on an open connection whose peer is there.
WriteSucceeds == ~connClosed /\ ~writeBroken

\* TaskLock without waiting for the mutex.
TaskLockUnguarded(t) ==
    /\ t \in Tasks
    /\ tasks[t].pc = "lock"
    /\ mutex' = t
    /\ tasks' = [tasks EXCEPT ![t].pc = "write"]
    /\ UNCHANGED <<doVars, keepaliveVars, readerPc, writerPc, connClosed, tickerStopped, tickPending, writeBroken,
                   subscriptionCancellers, canceled, term, teardowns, stopped>>

\* ws.mutex.Lock() in a per-frame goroutine.
TaskLock(t) ==
    /\ t \in Tasks
    /\ tasks[t].pc = "lock"
    /\ mutex = 0
    /\ mutex' = t
    /\ tasks' = [tasks EXCEPT ![t].pc = "write"]
    /\ UNCHANGED <<doVars, keepaliveVars, readerPc, writerPc, connClosed, tickerStopped, tickPending, writeBroken,
                   subscriptionCancellers, canceled, term, teardowns, stopped>>

\* A frame as it goes out, marked with whether a stop frame read after the
\* session's own frame had by then been handled for the session that writes it.
Written(t) ==
    [type |-> tasks[t].frame.type, id |-> tasks[t].frame.id,
     payload |-> tasks[t].frame.payload,
     afterStop |-> \E u \in Tasks : u > t /\ <<t, u>> \in stopped]

\* ws.conn.WriteJSON(any) and the deferred ws.mutex.Unlock(); the error is dropped.
TaskWrite(t) ==
    /\ t \in Tasks
    /\ tasks[t].pc = "write"
    /\ mutex = t
    /\ tasks' = [tasks EXCEPT
                    ![t].pc = tasks[t].after, ![t].frame = NoFrame, ![t].after = "done",
                    ![t].written = IF WriteSucceeds
                                   THEN Append(tasks[t].written, Written(t))
                                   ELSE tasks[t].written]
    /\ mutex' = 0
    /\ UNCHANGED <<doVars, keepaliveVars, readerPc, writerPc, connClosed, tickerStopped, tickPending, writeBroken,
                   subscriptionCancellers, canceled, term, teardowns, stopped>>

\* ---- the per-frame goroutine -----------------------------------------------

\* The data frame writeResult builds for a Result.
ResultFrame(t, payload) ==
    [type |-> dataMessageName(tasks[t].type), id |-> tasks[t].id,
     payload |-> payload]

\* cancellableCtx, cancel := context.WithCancel(ctx)
\* ws.subscriptionCancellers.Store(fmt.Sprintf("%v", msg.ID), cancel)
\* and the textual test that picks the branch: ch := graphql.DoAsync(params), or
\* result := graphql.Do(params), which returns its one Result, to be written.
Store(t) ==
    /\ t \in Tasks
    /\ tasks[t].pc = "store"
    /\ subscriptionCancellers' = [subscriptionCancellers EXCEPT ![tasks[t].id] = t]
    /\ tasks' = [tasks EXCEPT ![t] =
                    IF HasPrefixSubscription(tasks[t].query)
                    THEN [tasks[t] EXCEPT !.pc = "range", !.ctx = ctx]
                    ELSE WantWrite([tasks[t] EXCEPT !.recvd = 1, !.ctx = ctx],
                                   ResultFrame(t, 1), "cancel")]
    /\ UNCHANGED <<doVars, keepaliveVars, readerPc, writerPc, connClosed, tickerStopped, tickPending, writeBroken, mutex,
                   canceled, term, teardowns, stopped>>

\* RangeReceive with the Result taken and not written.
RangeReceiveLossy(t) ==
    /\ t \in Tasks
    /\ tasks[t].pc = "range"
    /\ IF DoAsyncChannel(tasks[t].query) = "stream"
       THEN t \notin canceled /\ tasks[t].recvd < MaxEvents
       ELSE tasks[t].recvd = 0
    /\ tasks' = [tasks EXCEPT ![t].recvd = tasks[t].recvd + 1]
    /\ UNCHANGED <<doVars, keepaliveVars, readerPc, writerPc, connClosed, tickerStopped, tickPending, writeBroken, mutex,
                   subscriptionCancellers, canceled, term, teardowns, stopped>>

\* for result := range ch { writeResult(result) }: the next Result arrives.  The
\* executor delivers events while the session's context lives; a "single"
\* channel delivers its one Result.
RangeReceive(t) ==
    /\ t \in Tasks
    /\ tasks[t].pc = "range"
    /\ IF DoAsyncChannel(tasks[t].query) = "stream"
       THEN t \notin canceled /\ tasks[t].recvd < MaxEvents
       ELSE tasks[t].recvd = 0
    /\ tasks' = [tasks EXCEPT ![t] =
                    WantWrite([tasks[t] EXCEPT !.recvd = tasks[t].recvd + 1],
                              ResultFrame(t, tasks[t].recvd + 1), "range")]
    /\ UNCHANGED <<doVars, keepaliveVars, readerPc, writerPc, connClosed, tickerStopped, tickPending, writeBroken, mutex,
                   subscriptionCancellers, canceled, term, teardowns, stopped>>

\* range ch ends: ExecuteSubscription closed its channel, the context being
\* canceled or the source exhausted.  A "single" channel is never closed.
RangeClosed(t) ==
    /\ t \in Tasks
    /\ tasks[t].pc = "range"
    /\ DoAsyncChannel(tasks[t].query) = "stream"
    /\ t \in canceled \/ tasks[t].recvd = MaxEvents
    /\ tasks' = [tasks EXCEPT ![t].pc = "done"]
    /\ UNCHANGED <<doVars, keepaliveVars, readerPc, writerPc, connClosed, tickerStopped, tickPending, writeBroken, mutex,
                   subscriptionCancellers, canceled, term, teardowns, stopped>>

\* cancel() // cancel the context here.  The map entry stays.
CancelAfterDo(t) ==
    /\ t \in Tasks
    /\ tasks[t].pc = "cancel"
    /\ canceled' = canceled \cup {t}
    /\ tasks' = [tasks EXCEPT ![t].pc = "done"]
    /\ UNCHANGED <<doVars, keepaliveVars, readerPc, writerPc, connClosed, tickerStopped, tickPending, writeBroken, mutex,
                   subscriptionCancellers, term, teardowns, stopped>>

\* if h.ModifyContextOnHeaders != nil { ... ctx = h.ModifyContextOnHeaders(ctx, headers) }
\* after the connection_ack has been written, for a handler that has the hook
\* and a frame that carries headers.  No lock guards the assignment.
ModifyContext(t) ==
    /\ t \in Tasks
    /\ tasks[t].pc = "headers"
    /\ tasks' = [tasks EXCEPT ![t].pc = "done"]
    /\ UNCHANGED <<doVars, keepaliveVars, readerPc, writerPc, connClosed, tickerStopped, tickPending, writeBroken, mutex,
                   subscriptionCancellers, canceled, term, teardowns, stopped>>

\* StopLoad with ok not looked at.
StopLoadUnchecked(t) ==
    /\ t \in Tasks
    /\ tasks[t].pc = "load"
    /\ tasks' = [tasks EXCEPT ![t].pc = "delete",
                              ![t].loaded = subscriptionCancellers[tasks[t].id]]
    /\ UNCHANGED <<doVars, keepaliveVars, readerPc, writerPc, connClosed, tickerStopped, tickPending, writeBroken, mutex,
                   subscriptionCancellers, canceled, term, teardowns, stopped>>

\* case "stop": cancel, ok := ws.subscriptionCancellers.Load(id)
StopLoad(t) ==
    /\ t \in Tasks
    /\ tasks[t].pc = "load"
    /\ LET s == subscriptionCancellers[tasks[t].id] IN
       tasks' = IF s # 0
                THEN [tasks EXCEPT ![t].pc = "delete", ![t].loaded = s]
                ELSE [tasks EXCEPT ![t].pc = "done"]
    /\ UNCHANGED <<doVars, keepaliveVars, readerPc, writerPc, connClosed, tickerStopped, tickPending, writeBroken, mutex,
                   subscriptionCancellers, canceled, term, teardowns, stopped>>

\* ws.subscriptionCancellers.Delete(id): whatever entry the id has now.
StopDelete(t) ==
    /\ t \in Tasks
    /\ tasks[t].pc = "delete"
    /\ subscriptionCancellers' = [subscriptionCancellers EXCEPT ![tasks[t].id] = 0]
    /\ tasks' = [tasks EXCEPT ![t].pc = "cancelLoaded"]
    /\ UNCHANGED <<doVars, keepaliveVars, readerPc, writerPc, connClosed, tickerStopped, tickPending, writeBroken, mutex,
                   canceled, term, teardowns, stopped>>

\* cancel(): the func that Load returned.
StopCancel(t) ==
    /\ t \in Tasks
    /\ tasks[t].pc = "cancelLoaded"
    /\ canceled' = canceled \cup {tasks[t].loaded}
    /\ stopped' = stopped \cup {<<tasks[t].loaded, t>>}
    /\ tasks' = [tasks EXCEPT ![t].pc = "done"]
    /\ UNCHANGED <<doVars, keepaliveVars, readerPc, writerPc, connClosed, tickerStopped, tickPending, writeBroken, mutex,
                   subscriptionCancellers, term, teardowns>>

\* ---- terminateConnection ---------------------------------------------------

RunnerPc(r) == IF r = Reader THEN readerPc ELSE writerPc

SetRunnerPc(r, v) ==
    IF r = Reader THEN readerPc' = v /\ UNCHANGED writerPc
                  ELSE writerPc' = v /\ UNCHANGED readerPc

\* ticker.Stop(); conn.Close(); and the Range call starts.
TerminateBegin(r) ==
    /\ RunnerPc(r) = "term"
    /\ term[r].pc = "idle"
    /\ tickerStopped' = TRUE
    /\ tickPending' \in IF tickerStopped THEN {tickPending} ELSE BOOLEAN
    /\ connClosed' = TRUE
    /\ teardowns' = teardowns + 1
    /\ term' = [term EXCEPT ![r].pc = "range", ![r].snap = Registered]
    /\ UNCHANGED <<doVars, keepaliveVars, readerPc, writerPc, writeBroken, mutex, subscriptionCancellers,
                   canceled, tasks, stopped>>

\* Range calls its func with an entry of the map.  sync.Map's Range is no
\* snapshot: an entry stored during the call may be visited or missed.
TerminateVisit(r) ==
    /\ term[r].pc = "range"
    /\ \E i \in Registered \ term[r].visited :
         term' = [term EXCEPT ![r].pc = "delete", ![r].cur = i,
                              ![r].cancel = subscriptionCancellers[i],
                              ![r].visited = term[r].visited \cup {i}]
    /\ UNCHANGED <<doVars, keepaliveVars, readerPc, writerPc, connClosed, tickerStopped, tickPending, writeBroken, mutex,
                   subscriptionCancellers, canceled, tasks, teardowns, stopped>>

\* ws.subscriptionCancellers.Delete(id)
TerminateDelete(r) ==
    /\ term[r].pc = "delete"
    /\ subscriptionCancellers' = [subscriptionCancellers EXCEPT ![term[r].cur] = 0]
    /\ term' = [term EXCEPT ![r].pc = "cancel"]
    /\ UNCHANGED <<doVars, keepaliveVars, readerPc, writerPc, connClosed, tickerStopped, tickPending, writeBroken, mutex,
                   canceled, tasks, teardowns, stopped>>

\* cancel(); return true
TerminateCancel(r) ==
    /\ term[r].pc = "cancel"
    /\ canceled' = canceled \cup {term[r].cancel}
    /\ term' = [term EXCEPT ![r].pc = "range", ![r].cur = 0, ![r].cancel = 0]
    /\ UNCHANGED <<doVars, keepaliveVars, readerPc, writerPc, connClosed, tickerStopped, tickPending, writeBroken, mutex,
                   subscriptionCancellers, tasks, teardowns, stopped>>

\* Range returns, having visited every entry that was there throughout; the
\* deferred call is over and the goroutine ends.
TerminateEnd(r) ==
    /\ term[r].pc = "range"
    /\ (term[r].snap \ term[r].visited) \cap Registered = {}
    /\ term' = [term EXCEPT ![r].pc = "done"]
    /\ SetRunnerPc(r, "done")
    /\ UNCHANGED <<doVars, keepaliveVars, connClosed, tickerStopped, tickPending, writeBroken, mutex,
                   subscriptionCancellers, canceled, tasks, teardowns, stopped>>

\* ---- the reader ------------------------------------------------------------

\* conn.ReadMessage() returns a message.  A ping sends the reader to write the
\* pong; for anything else go func(message) starts.
ReaderDispatch(max) ==
    /\ readerPc = "read"
    /\ ~connClosed
    /\ Len(tasks) < max
    /\ \E f \in Frames :
        /\ f.id <= Cardinality(UsedIds) + 1
        /\ tasks' = Append(tasks, NewTask(f))
        /\ readerPc' = IF f.type = "ping" THEN "pong" ELSE "read"
    /\ UNCHANGED <<doVars, keepaliveVars, writerPc, connClosed, tickerStopped, tickPending, writeBroken, mutex,
                   subscriptionCancellers, canceled, term, teardowns, stopped>>

\* ws.WriteMessage(websocket.PongMessage, nil): Lock
ReaderLock ==
    /\ readerPc = "pong"
    /\ mutex = 0
    /\ mutex' = Reader
    /\ readerPc' = "ponging"
    /\ UNCHANGED <<doVars, keepaliveVars, writerPc, connClosed, tickerStopped, tickPending, writeBroken,
                   subscriptionCancellers, canceled, tasks, term, teardowns, stopped>>

\* ... the write and Unlock; the error is dropped; continue
ReaderPong ==
    /\ readerPc = "ponging"
    /\ mutex = Reader
    /\ mutex' = 0
    /\ readerPc' = "read"
    /\ UNCHANGED <<doVars, keepaliveVars, writerPc, connClosed, tickerStopped, tickPending, writeBroken,
                   subscriptionCancellers, canceled, tasks, term, teardowns, stopped>>

\* conn.ReadMessage() returns an error on a connection that conn.Close() has
\* closed: break, and the deferred terminateConnection runs.
ReaderClosedError ==
    /\ readerPc = "read"
    /\ connClosed
    /\ readerPc' = "term"
    /\ UNCHANGED <<doVars, keepaliveVars, writerPc, connClosed, tickerStopped, tickPending, writeBroken, mutex,
                   subscriptionCancellers, canceled, tasks, term, teardowns, stopped>>

\* conn.ReadMessage() returns an error on an open connection (the peer closed
\* it, or the read deadline passed): break, and the deferred
\* terminateConnection runs.
ReaderError ==
    /\ readerPc = "read"
    /\ ~connClosed
    /\ readerPc' = "term"
    /\ UNCHANGED <<doVars, keepaliveVars, writerPc, connClosed, tickerStopped, tickPending, writeBroken, mutex,
                   subscriptionCancellers, canceled, tasks, term, teardowns, stopped>>

\* ---- the writer ------------------------------------------------------------

\* The peer goes away: from now on writes to the socket fail.
PeerGone ==
    /\ ~writeBroken
    /\ ~connClosed
    /\ writeBroken' = TRUE
    /\ UNCHANGED <<doVars, keepaliveVars, readerPc, writerPc, connClosed, tickerStopped, tickPending, mutex,
                   subscriptionCancellers, canceled, tasks, term, teardowns, stopped>>

\* case <-ticker.C: a running ticker sends a tick in time; a stopped one
\* sends none, and only a tick that was already waiting is received.
WriterSelect ==
    /\ writerPc = "select"
    /\ ~tickerStopped \/ tickPending
    /\ tickPending' = FALSE
    /\ writerPc' = "ping"
    /\ UNCHANGED <<doVars, keepaliveVars, readerPc, connClosed, tickerStopped, writeBroken, mutex,
                   subscriptionCancellers, canceled, tasks, term, teardowns, stopped>>

\* ws.WriteMessage(websocket.PingMessage, nil): Lock
WriterLock ==
    /\ writerPc = "ping"
    /\ mutex = 0
    /\ mutex' = Writer
    /\ writerPc' = "pinging"
    /\ UNCHANGED <<doVars, keepaliveVars, readerPc, connClosed, tickerStopped, tickPending, writeBroken,
                   subscriptionCancellers, canceled, tasks, term, teardowns, stopped>>

\* ... the write and Unlock; an error returns from the goroutine, and the
\* deferred terminateConnection runs.
WriterPing ==
    /\ writerPc = "pinging"
    /\ mutex = Writer
    /\ mutex' = 0
    /\ writerPc' = IF WriteSucceeds THEN "select" ELSE "term"
    /\ UNCHANGED <<doVars, keepaliveVars, readerPc, connClosed, tickerStopped, tickPending, writeBroken,
                   subscriptionCancellers, canceled, tasks, term, teardowns, stopped>>

\* ---- the keepalive: read deadline, pings and pongs ---------------------------

\* Time allowed to read the next pong message from the peer, in seconds.
pongWait == 60

\* Send pings to peer with this period.
pingPeriod == pongWait \div 2

\* time.NewTicker(pingPeriod) and, in the reader,
\* conn.SetReadDeadline(time.Now().Add(pongWait)).
KeepaliveInit ==
    /\ now = 0
    /\ readDeadline = pongWait
    /\ lastPong = 0
    /\ nextPing = pingPeriod
    /\ pinged = FALSE

\* A second passes with the reader blocked in conn.ReadMessage: neither the
\* read deadline nor the next tick has come.
KeepaliveTick ==
    /\ readerPc = "read"
    /\ now < MaxTime
    /\ now < readDeadline
    /\ now < nextPing
    /\ now' = now + 1
    /\ UNCHANGED <<doVars, wsVars, readDeadline, lastPong, nextPing, pinged>>

\* case <-ticker.C: the writer sends its keepalive ping.
KeepalivePing ==
    /\ readerPc = "read"
    /\ now = nextPing
    /\ nextPing' = nextPing + pingPeriod
    /\ pinged' = TRUE
    /\ UNCHANGED <<doVars, wsVars, now, readDeadline, lastPong>>

\* KeepalivePong with the pong handler not installed.
KeepalivePongUnhandled ==
    /\ readerPc = "read"
    /\ pinged
    /\ now < readDeadline
    /\ lastPong' = now
    /\ pinged' = FALSE
    /\ UNCHANGED <<doVars, wsVars, now, readDeadline, nextPing>>

\* The peer's pong arrives before the deadline: the handler set by
\* conn.SetPongHandler runs conn.SetReadDeadline(time.Now().Add(pongWait)).
KeepalivePong ==
    /\ readerPc = "read"
    /\ pinged
    /\ now < readDeadline
    /\ readDeadline' = now + pongWait
    /\ lastPong' = now
    /\ pinged' = FALSE
    /\ UNCHANGED <<doVars, wsVars, now, nextPing>>

\* The read deadline has come: conn.ReadMessage returns a timeout error, the
\* reader breaks out of its loop and the deferred terminateConnection runs.
KeepaliveTimeout ==
    /\ readerPc = "read"
    /\ now >= readDeadline
    /\ readerPc' = "term"
    /\ UNCHANGED <<doVars, keepaliveVars, writerPc, connClosed, tickerStopped, tickPending,
                   writeBroken, mutex, subscriptionCancellers, canceled, tasks, term,
                   teardowns, stopped>>

(***************************************************************************)
(* The specifications                                                      *)
(***************************************************************************)

Init == DoInit /\ WsInit /\ KeepaliveInit

DoStep ==
    \/ HandleExtensionsInits
    \/ HandleExtensionsParseDidStart
    \/ Parse
    \/ ParseFinish
    \/ HandleExtensionsValidationDidStart
    \/ ValidateDocument
    \/ ValidationFinish
    \/ Dispatch

ChannelStep ==
    \/ Send
    \/ SubscriptionEvent
    \/ SubscriptionClose
    \/ RangeEnd

Next == DoStep \/ ChannelStep \/ CancelContext

Spec == Init /\ [][Next]_vars

\* The Go scheduler runs every runnable goroutine: do's own steps and the
\* channel operations are taken when they can be.  Nothing obliges the owner of
\* the context to cancel it.
FairSpec == Spec /\ WF_vars(DoStep) /\ WF_vars(ChannelStep)

TaskStep(t) ==
    \/ TaskLock(t)
    \/ TaskWrite(t)
    \/ Store(t)
    \/ RangeReceive(t)
    \/ RangeClosed(t)
    \/ CancelAfterDo(t)
    \/ ModifyContext(t)
    \/ StopLoad(t)
    \/ StopDelete(t)
    \/ StopCancel(t)

TerminateStep(r) ==
    \/ TerminateBegin(r)
    \/ TerminateVisit(r)
    \/ TerminateDelete(r)
    \/ TerminateCancel(r)
    \/ TerminateEnd(r)

\* The steps a per-frame goroutine can take when its frame is the only one read.
LoneTaskStep(t) ==
    \/ TaskLock(t)
    \/ TaskWrite(t)
    \/ Store(t)
    \/ RangeReceive(t)
    \/ RangeClosed(t)
    \/ CancelAfterDo(t)
    \/ ModifyContext(t)
    \/ StopLoad(t)

\* The reader's own steps while only the reader closes the connection.
ReaderOwnStep == ReaderLock \/ ReaderPong \/ TerminateStep(Reader)

ReaderStep == ReaderOwnStep \/ ReaderClosedError

WriterStep == WriterSelect \/ WriterLock \/ WriterPing \/ TerminateStep(Writer)

\* No request runs through Part 1's pipeline in the connection's specifications.
WsInitial ==
    /\ WsInit
    /\ DoInit
    /\ KeepaliveInit
    /\ skipSubscriptions = FALSE
    /\ OperationName = 0

\* The connection between two ticks of its ticker (pingPeriod is 30 s) and with
\* its peer there: the reader, the per-frame goroutines and the reader's
\* terminateConnection, for up to MaxFrames messages.  The writer waits in its
\* select.
WsNext ==
    \/ \E t \in 1..MaxFrames : TaskStep(t)
    \/ ReaderOwnStep
    \/ ReaderDispatch(MaxFrames)
    \/ ReaderError

WsSpec == WsInitial /\ [][WsNext]_vars

\* Every goroutine that can run does run.  The peer is not obliged to act.
WsFairSpec ==
    /\ WsSpec
    /\ \A t \in 1..MaxFrames : WF_vars(TaskStep(t))
    /\ WF_vars(ReaderOwnStep)

\* The whole connection, ticks and a peer that goes away included, for up to
\* MaxConnFrames messages.
ConnNext ==
    \/ \E t \in 1..MaxConnFrames : LoneTaskStep(t)
    \/ ReaderStep
    \/ WriterStep
    \/ ReaderDispatch(MaxConnFrames)
    \/ ReaderError
    \/ PeerGone

ConnSpec == WsInitial /\ [][ConnNext]_vars

ConnFairSpec ==
    /\ ConnSpec
    /\ \A t \in 1..MaxConnFrames : WF_vars(LoneTaskStep(t))
    /\ WF_vars(ReaderStep)
    /\ WF_vars(WriterStep)

\* An idle connection under its keepalive: the clock, the writer's pings, the
\* peer's pongs, the read deadline and the reader's terminateConnection, for
\* MaxTime seconds.
KeepaliveNext ==
    \/ KeepaliveTick
    \/ KeepalivePing
    \/ KeepalivePong
    \/ KeepaliveTimeout
    \/ TerminateBegin(Reader)
    \/ TerminateEnd(Reader)

KeepaliveSpec == WsInitial /\ [][KeepaliveNext]_vars

\* A read whose deadline has come returns, and the reader goroutine runs on.
\* Neither time nor the peer is obliged to go on.
KeepaliveFairSpec ==
    /\ KeepaliveSpec
    /\ WF_vars(KeepaliveTimeout)
    /\ WF_vars(TerminateBegin(Reader) \/ TerminateEnd(Reader))

(***************************************************************************)
(* PART 3: the claims about the pipeline                                   *)
(***************************************************************************)

\* How often a hook or stage has been invoked.
Count(name) == Cardinality({i \in DOMAIN calls : calls[i].name = name})

\* The pipeline stage a call belongs to: init 1, parse 2, validation 3, execution 4.
StageOf(name) ==
    IF name = "init" THEN 1
    ELSE IF name \in {"parseDidStart", "parse", "parseFinish"} THEN 2
    ELSE IF name \in {"validationDidStart", "validate", "validationFinish"} THEN 3
    ELSE 4

\* The finish hook that may still follow a failed stage body.
FinishOf(name) ==
    IF name = "parse" THEN "parseFinish"
    ELSE IF name = "validate" THEN "validationFinish"
    ELSE "none"

\* A document of one operation, a query or a mutation, has been parsed,
\* validated and handed to Execute.
ExecutedQueryOrMutation ==
    /\ strategy = "Execute"
    /\ Len(AST) = 1
    /\ AST[1] \in {"query", "mutation"}

\* C1: for a query or mutation document that parses and validates, the
\* returned stream delivers exactly one Result and is then closed: once the
\* goroutine feeding it has ended, one Result has been taken and the channel
\* is closed, so that a range over it ends.
C1_OneResultThenClosed ==
    (ExecutedQueryOrMutation /\ producer = "done")
        => (Len(received) = 1 /\ chClosed)

\* C6: when the pipeline has returned, each stage (parse, validation) whose
\* start hooks were invoked has had its finish function invoked exactly once,
\* also when the start hooks themselves reported errors.
C6_FinishOncePerStartedStage ==
    pc \in {"returned", "panicked"} =>
        /\ Count("parseDidStart") = 1 => Count("parseFinish") = 1
        /\ Count("validationDidStart") = 1 => Count("validationFinish") = 1

\* C7: the stages run in the order init, parse, validation, execution, and the
\* first call that reports errors ends the pipeline: nothing is invoked after
\* it but the finish hook of the stage that failed, no later stage starts, the
\* document is not executed, the pipeline does not panic, and the returned
\* stream carries exactly one Result, whose errors are those reported.
C7_StopsAtFirstFailedStage ==
    /\ \A i, j \in DOMAIN calls :
         i < j => StageOf(calls[i].name) <= StageOf(calls[j].name)
    /\ \A i \in DOMAIN calls :
         (calls[i].errs /\ StageOf(calls[i].name) < 4) =>
            /\ \A j \in DOMAIN calls :
                 j > i => (j = i + 1 /\ calls[j].name = FinishOf(calls[i].name))
            /\ \A j \in DOMAIN calls : StageOf(calls[j].name) <= StageOf(calls[i].name)
            /\ pc = "returned"
            /\ strategy = "wrapErr"
            /\ Count("execute") = 0 /\ Count("executeSubscription") = 0
            /\ pending.Data = "none"
            /\ {pending.Errors[k] : k \in DOMAIN pending.Errors}
                 = {calls[j].name : j \in {k \in DOMAIN calls : calls[k].errs}}
            /\ \/ producer = "send" /\ received = <<>>
               \/ producer = "done" /\ received = <<pending>>

\* C7's case: validation failed and the one Result has been delivered.
C7_Witness ==
    /\ \E i \in DOMAIN calls : calls[i].name = "validate" /\ calls[i].errs
    /\ producer = "done"
    /\ Len(received) = 1

\* C8: whenever do has delegated to ExecuteSubscription, the operation that
\* OperationName selects for execution is a subscription; and with
\* skipSubscriptions (Do) it never delegates to ExecuteSubscription.
C8_StreamingOnlyForSubscriptions ==
    /\ strategy = "ExecuteSubscription" =>
         SelectedOperation(AST, OperationName) \in {"subscription", "none"}
    /\ skipSubscriptions => strategy # "ExecuteSubscription"

\* C9: Do returns exactly one Result, the one the pipeline produced, whatever
\* the outcome of the pipeline; it always returns, and when it has returned
\* the goroutine that fed the channel has ended.
C9_DoReturnsOneResult ==
    /\ [](skipSubscriptions /\ caller = "done" =>
            /\ received = <<pending>>
            /\ producer = "done")
    /\ (skipSubscriptions ~> caller = "done")

\* C9's case: Do has returned the Result of a document whose first operation
\* is a subscription.
C9_Witness ==
    /\ skipSubscriptions
    /\ caller = "done"
    /\ strategy = "Execute"
    /\ Len(AST) > 0 /\ AST[1] = "subscription"

(***************************************************************************)
(* PART 4: the claims about the websocket connection                       *)
(***************************************************************************)

\* Goroutine t handles a subscribe/start frame and has created and stored its
\* session (context.WithCancel and Store).
HasSession(t) ==
    /\ tasks[t].type \in {"subscribe", "start"}
    /\ tasks[t].payloadOk
    /\ tasks[t].pc # "store"

\* A session that streams: its goroutine ranges over DoAsync's channel, and
\* nothing has canceled it.
Streaming(t) ==
    /\ HasSession(t)
    /\ HasPrefixSubscription(tasks[t].query)
    /\ tasks[t].pc # "done"
    /\ t \notin canceled

\* No goroutine is about to change the registry, and no teardown runs.
Settled ==
    /\ readerPc = "read"
    /\ \A t \in Tasks : tasks[t].pc \notin {"store", "load", "delete", "cancelLoaded"}

\* C2: once terminateConnection has finished, the registry is empty, whatever
\* the per-frame goroutines started before it do afterwards.
C2_RegistryEmptyAfterTeardown ==
    readerPc = "done" => Registered = {}

\* C3: two sessions for the same id are never left alive together: when the
\* registry is at rest, no two streaming sessions share an id.
C3_NoTwoSessionsLeftAlive ==
    Settled =>
        \A t, u \in Tasks :
            (t # u /\ Streaming(t) /\ Streaming(u)) => tasks[t].id # tasks[u].id

\* C4: once a stop frame has been handled for a registered subscription
\* session, no further data/next frame of that session is written.
C4_NoFrameAfterStop ==
    \A t \in Tasks :
        (HasSession(t) /\ HasPrefixSubscription(tasks[t].query)
                       /\ DoAsyncChannel(tasks[t].query) = "stream") =>
            \A k \in DOMAIN tasks[t].written : ~tasks[t].written[k].afterStop

\* C5: the goroutine of a subscribe/start frame whose operation is a query
\* writes at most one data frame and, when it has ended, its session is
\* canceled and is no longer in the registry.
C5_QuerySessionCanceledAndRemoved ==
    \A t \in Tasks :
        (HasSession(t) /\ tasks[t].query = <<"query">> /\ tasks[t].pc = "done") =>
            /\ Len(tasks[t].written) <= 1
            /\ t \in canceled
            /\ subscriptionCancellers[tasks[t].id] # t

\* C10: when the reader has terminated the writer eventually terminates, and
\* when the writer has terminated the reader eventually terminates.
C10_OtherTaskTerminates ==
    /\ (readerPc = "done") ~> (writerPc = "done")
    /\ (writerPc = "done") ~> (readerPc = "done")

\* C11: the body of terminateConnection (ticker.Stop, conn.Close, the Range that
\* cancels the sessions) runs exactly once per connection: once a long-lived
\* goroutine has ended it has run, and it never runs a second time.
C11_TeardownRunsOnce ==
    /\ teardowns <= 1
    /\ (readerPc = "done" \/ writerPc = "done") => teardowns = 1

\* The frames goroutine t has handed to ws.WriteJSON so far: one for a frame
\* answered with an ack or an error, one per Result taken for a session.
Handed(t) ==
    IF tasks[t].type \in {"malformed", "connection_init"} THEN 1
    ELSE IF tasks[t].type \in {"subscribe", "start"}
    THEN IF tasks[t].payloadOk THEN tasks[t].recvd ELSE 1
    ELSE 0

\* The writes of goroutine t that have returned an error: those handed over and
\* no longer under way that did not go out.
FailedWrites(t) ==
    Handed(t) - (IF tasks[t].pc \in {"lock", "write"} THEN 1 ELSE 0)
              - Len(tasks[t].written)

\* terminateConnection has been called, or is about to be, by a long-lived goroutine.
Terminating ==
    \/ connClosed
    \/ readerPc \in {"term", "done"}
    \/ writerPc \in {"term", "done"}

\* C12: a failed write terminates the connection, whichever frame it was for:
\* when a write of a per-frame goroutine (ack, error, data/next) has failed,
\* the connection is being terminated.
C12_FailedWriteTerminates ==
    (\E t \in Tasks : FailedWrites(t) > 0) => Terminating

\* C13: every inbound frame that is malformed JSON or has a type the handler
\* does not know is answered with one error frame while the connection is open.
C13_ProtocolErrorAnswered ==
    \A t \in Tasks :
        (tasks[t].type \in {"malformed", "unknown"} /\ tasks[t].pc = "done"
                                                     /\ ~connClosed) =>
            /\ Len(tasks[t].written) = 1
            /\ tasks[t].written[1].type = "error"

\* C14: a frame that is not valid JSON is answered with exactly one error frame
\* and nothing else, registers no session and cancels none, and does not close
\* the connection: only the reader's terminateConnection does.
C14_MalformedAnsweredOnce ==
    /\ \A t \in Tasks :
         tasks[t].type = "malformed" =>
            /\ Len(tasks[t].written) <= 1
            /\ \A k \in DOMAIN tasks[t].written : tasks[t].written[k].type = "error"
            /\ (tasks[t].pc = "done" /\ ~connClosed) => Len(tasks[t].written) = 1
            /\ \A i \in Ids : subscriptionCancellers[i] # t
            /\ t \notin canceled
    /\ connClosed => readerPc \in {"term", "done"}

\* C14's case: the error frame has answered a malformed frame, and the reader
\* has gone on to read the next frame, which has been answered as well.
C14_Witness ==
    /\ Len(tasks) = 2
    /\ tasks[1].type = "malformed"
    /\ Len(tasks[1].written) = 1
    /\ tasks[2].type = "connection_init"
    /\ Len(tasks[2].written) = 1
    /\ ~connClosed

\* The goroutines that are inside conn.WriteJSON or conn.WriteMessage.
Writing ==
    {t \in Tasks : tasks[t].pc = "write"}
        \cup (IF readerPc = "ponging" THEN {Reader} ELSE {})
        \cup (IF writerPc = "pinging" THEN {Writer} ELSE {})

\* C15: at no time are two writes to the socket under way together, and the
\* goroutine that writes holds ws.mutex.
C15_WritesExclusive ==
    /\ Cardinality(Writing) <= 1
    /\ Writing # {} => Writing = {mutex}

\* C15's case: the writer is in its ping while a per-frame goroutine waits for
\* the mutex to write its frame.
C15_Witness ==
    /\ writerPc = "pinging"
    /\ \E t \in Tasks : tasks[t].pc = "lock"

\* C16: the data/next frames of a session are the Results its goroutine took
\* from the channel, in that order, one frame per Result: frame k carries
\* Result k, and while the connection is open none is missing.
C16_FramesInDeliveryOrder ==
    \A t \in Tasks :
        HasSession(t) =>
            /\ \A k \in DOMAIN tasks[t].written : tasks[t].written[k].payload = k
            /\ ~connClosed => FailedWrites(t) = 0

\* C16's case: a subscription session has written the frames of two events.
C16_Witness ==
    \E t \in Tasks :
        /\ HasSession(t)
        /\ DoAsyncChannel(tasks[t].query) = "stream"
        /\ Len(tasks[t].written) = 2

\* C17: every result frame written for a subscribe/start frame carries the id
\* of that frame, and its type is "next" for "subscribe" and "data" for "start".
C17_ResultFrameMirrorsRequest ==
    \A t \in Tasks :
        (tasks[t].type \in {"subscribe", "start"} /\ tasks[t].payloadOk) =>
            \A k \in DOMAIN tasks[t].written :
                /\ tasks[t].written[k].id = tasks[t].id
                /\ tasks[t].type = "subscribe" => tasks[t].written[k].type = "next"
                /\ tasks[t].type = "start" => tasks[t].written[k].type = "data"

\* C17's case: a "subscribe" and a "start" request have both had a result frame.
C17_Witness ==
    \E t, u \in Tasks :
        /\ tasks[t].type = "subscribe" /\ tasks[t].payloadOk
        /\ Len(tasks[t].written) > 0
        /\ tasks[u].type = "start" /\ tasks[u].payloadOk
        /\ Len(tasks[u].written) > 0

\* C20: a stop frame whose id has no session in the registry is a no-op: its
\* goroutine writes nothing and, having loaded nothing, ends without going on
\* to Delete and cancel, so that it removes no entry and cancels no session.
C20_StopUnknownIdIsNoOp ==
    \A t \in Tasks :
        tasks[t].type = "stop" =>
            /\ tasks[t].written = <<>>
            /\ tasks[t].frame = NoFrame
            /\ tasks[t].loaded = 0 =>
                 /\ tasks[t].pc \in {"load", "done"}
                 /\ \A u \in Tasks : <<u, t>> \notin stopped
                 /\ 0 \notin canceled

\* C20's case: a stop frame for an id without a session has been handled while
\* the session of another id streams on, registered and not canceled.
C20_Witness ==
    \E t, u \in Tasks :
        /\ tasks[t].type = "stop"
        /\ tasks[t].pc = "done"
        /\ tasks[t].loaded = 0
        /\ u < t
        /\ tasks[u].id # tasks[t].id
        /\ Streaming(u)
        /\ subscriptionCancellers[tasks[u].id] = u

\* C18: the read deadline terminates the connection only when pongWait has
\* passed since the last pong (since the upgrade, before the first), so pongs
\* that keep arriving at shorter intervals keep it alive; and when pongWait
\* has passed without a pong the connection is eventually terminated.
C18_ReadDeadlineKeepalive ==
    /\ [](readerPc # "read" => now >= lastPong + pongWait)
    /\ (now >= lastPong + pongWait) ~> connClosed

\* C18's case: pongs have kept the connection alive beyond its first deadline,
\* then stayed away, and the connection has been terminated.
C18_Witness ==
    /\ lastPong > 0
    /\ now > pongWait
    /\ connClosed

\* C19: the ping period is strictly less than half of the pong wait: at the
\* upgrade, twice the time to the ticker's first tick (pingPeriod) is less than
\* the time to the read deadline (pongWait).
C19_PingPeriodBelowHalfPongWait ==
    now = 0 => 2 * (nextPing - now) < readDeadline - now

\* The goroutine of a subscribe/start frame is in the branch that drains
\* DoAsync's channel: it ranges, or writes a frame and ranges on.
Drains(t) ==
    \/ tasks[t].pc = "range"
    \/ tasks[t].pc \in {"lock", "write"} /\ tasks[t].after = "range"

\* C21: the handler drains DoAsync for a subscribe/start frame exactly when
\* the first operation of the frame's parsed document is a subscription: the
\* textual test on the query string agrees with the parsed operation.
C21_StreamsExactlySubscriptions ==
    \A t \in Tasks :
        (HasSession(t) /\ tasks[t].pc # "done") =>
            (Drains(t) <=> EntersSubscription(FALSE, ParseQuery(tasks[t].query)))

\* C23: when a stop frame read after the subscribe/start frame of the same id
\* has been handled, the session started for the id is canceled and absent
\* from the registry, whichever way the two goroutines interleave.
C23_StopAfterSubscribeCancels ==
    \A t, u \in Tasks :
        (/\ t < u
         /\ HasSession(t)
         /\ tasks[u].type = "stop"
         /\ tasks[u].id = tasks[t].id
         /\ tasks[u].pc = "done") =>
            /\ t \in canceled
            /\ subscriptionCancellers[tasks[t].id] # t

\* C24: removal is atomic with cancellation: whenever the goroutine of a stop
\* frame or terminateConnection deletes the entry of an id, the entry it
\* deletes holds the cancel func it goes on to call.
C24_DeletesWhatItCancels ==
    [][/\ \A t \in Tasks :
            (/\ tasks[t].pc = "delete"
             /\ tasks'[t].pc = "cancelLoaded"
             /\ subscriptionCancellers[tasks[t].id] # 0) =>
                subscriptionCancellers[tasks[t].id] = tasks[t].loaded
       /\ \A r \in Runners :
            (/\ term[r].pc = "delete"
             /\ term'[r].pc = "cancel"
             /\ subscriptionCancellers[term[r].cur] # 0) =>
                subscriptionCancellers[term[r].cur] = term[r].cancel]_vars

\* C25: DoAsync returns its channel without a failed type assertion for every
\* document that parses and validates, whatever its first definition is.
C25_DoAsyncNeverPanics ==
    pc # "panicked"

\* C22: a subscribe/start frame read after the connection_ack of a
\* connection_init frame with headers has gone out executes with the context
\* that ModifyContextOnHeaders returned.
C22_SessionsUseModifiedContext ==
    \A t \in Tasks :
        (HasSession(t) /\ tasks[t].afterAck) => tasks[t].ctx = "modified"

====
